---- MODULE Spec2Model ----
(***************************************************************************)
(* Post-training affine uint8 quantization of linear layers                *)
(* (Int8Quantization.ipynb): quantize_linear, QuantizedLinearLayer.forward *)
(* and quantize_model.                                                     *)
(*                                                                         *)
(* Floating-point values are modelled as exact extended rationals <<n, d>>:*)
(* d > 0 is the finite value n/d in lowest terms, <<1, 0>> is +inf,        *)
(* <<-1, 0>> is -inf and <<0, 0>> is NaN.  float32 rounding of the         *)
(* arithmetic itself is not modelled; torch.round (half to even), clamp    *)
(* and the cast to uint8 are.                                              *)
(***************************************************************************)
EXTENDS Integers, Sequences, FiniteSets, TLC

VARIABLES
    \* ---- quantize_linear / forward on one layer
    lpc,            \* "start" -> "quantized" -> "forwarded"
    linear_layer,   \* the nn.Linear given to quantize_linear
    calib,          \* the local min_val / max_val of the weight and of the bias
    qout,           \* the six values quantize_linear returns
    fwd,            \* locals and result of QuantizedLinearLayer.forward
    \* ---- quantize_model on a module tree
    pc,             \* "start" -> "done" -> "again"
    heap,           \* object heap: sequence of module objects, id = index
    model,          \* id of the module the caller passes
    exclude_layers, \* names passed as exclude_layers
    copy_model,     \* the copy_model flag of the caller's call
    result,         \* id of the module quantize_model returned
    heap0,          \* the heap as it was when the caller called
    result1,        \* the tree returned by the first call, as a value
    warnings        \* names reported to the caller while transforming

lvars == <<lpc, linear_layer, calib, qout, fwd>>
tvars == <<pc, heap, model, exclude_layers, copy_model, result, heap0, result1, warnings>>
vars == <<lpc, linear_layer, calib, qout, fwd,
          pc, heap, model, exclude_layers, copy_model, result, heap0, result1, warnings>>

(***************************************************************************)
(* Bounds                                                                  *)
(***************************************************************************)
\* largest number of elements of a weight tensor (out_features * in_features)
MaxElems == 2
\* largest number of module objects in the caller's tree
MaxNodes == 4

\* the largest code of an unsigned 8-bit integer, as written in the source
QMax == 255

(***************************************************************************)
(* Extended rational arithmetic                                            *)
(***************************************************************************)
Abs(n) == IF n < 0 THEN -n ELSE n
Sgn(n) == IF n < 0 THEN -1 ELSE IF n > 0 THEN 1 ELSE 0

RECURSIVE Gcd(_, _)
Gcd(a, b) == IF b = 0 THEN a ELSE Gcd(b, a % b)

Norm(n, d) ==
    IF d = 0 THEN <<Sgn(n), 0>>
    ELSE LET g == Gcd(Abs(n), d) IN <<n \div g, d \div g>>

R(n) == <<n, 1>>
NaN == <<0, 0>>
Inf == <<1, 0>>
IsFinite(a) == a[2] > 0
IsNaN(a) == a = NaN

Neg(a) == <<-a[1], a[2]>>
Mul(a, b) == Norm(a[1] * b[1], a[2] * b[2])
Add(a, b) ==
    IF a[2] = 0 /\ b[2] = 0
    THEN IF a = b THEN a ELSE NaN
    ELSE Norm(a[1] * b[2] + b[1] * a[2], a[2] * b[2])
Sub(a, b) == Add(a, Neg(b))
\* a / b; a zero divisor is +0.0 (it is only ever max_val - min_val of equal values)
Div(a, b) ==
    Norm(a[1] * b[2] * (IF b[1] < 0 THEN -1 ELSE 1), a[2] * Abs(b[1]))
\* comparisons with NaN are false
Lt(a, b) == a # NaN /\ b # NaN /\ a[1] * b[2] < b[1] * a[2]
Le(a, b) == a # NaN /\ b # NaN /\ a[1] * b[2] <= b[1] * a[2]
AbsR(a) == <<Abs(a[1]), a[2]>>


(***************************************************************************)
(* Tensor primitives used by quantize_linear and forward                   *)
(***************************************************************************)
Range(t) == {t[i] : i \in DOMAIN t}

\* Tensor.min() / Tensor.max() over all elements
TensorMin(t) == CHOOSE v \in Range(t) : \A u \in Range(t) : Le(v, u)
TensorMax(t) == CHOOSE v \in Range(t) : \A u \in Range(t) : Le(u, v)

\* torch.round: nearest integer, ties to the even one
Round(a) ==
    IF ~IsFinite(a) THEN a
    ELSE LET f == a[1] \div a[2]
             r == a[1] - f * a[2]
         IN  R(IF 2 * r < a[2] THEN f
               ELSE IF 2 * r > a[2] THEN f + 1
               ELSE IF f % 2 = 0 THEN f ELSE f + 1)

NoClamp(a, lo, hi) == a
\* Tensor.clamp(lo, hi); NaN stays NaN
Clamp(a, lo, hi) ==
    IF IsNaN(a) THEN a
    ELSE IF Lt(a, lo) THEN lo
    ELSE IF Lt(hi, a) THEN hi
    ELSE a

\* the codes a cast of NaN to uint8 may produce: the conversion is undefined,
\* builds give 0 or a saturated byte
NaNCastOutcomes == {0, QMax}

\* Tensor.to(torch.uint8) of one element: truncation toward zero, then wrap
\* modulo 2^8; `nan` is the outcome this cast produces for a non-finite value
ToUint8(a, nan) ==
    IF IsFinite(a)
    THEN (IF a[1] >= 0 THEN a[1] \div a[2] ELSE -((-a[1]) \div a[2])) % 256
    ELSE nan

(***************************************************************************)
(* quantize_linear                                                         *)
(***************************************************************************)
\* "extend interval to include zero"
ExtendMin(mn) == IF Lt(R(0), mn) THEN R(0) ELSE mn
ExtendMax(mx) == IF Lt(mx, R(0)) THEN R(0) ELSE mx
Calibrate(t) == <<ExtendMin(TensorMin(t)), ExtendMax(TensorMax(t))>>

WeightRange(layer) == Calibrate(layer.weight)
BiasRangeReused(layer) == Calibrate(layer.weight)
BiasRange(layer) == Calibrate(layer.bias)

Scale256(rng) == Div(R(QMax + 1), Sub(rng[2], rng[1]))
\* 255 / (max_val - min_val)
Scale(rng) == Div(R(QMax), Sub(rng[2], rng[1]))

\* (-min_val * scale).round().clamp(0, 255).to(torch.uint8)
ZeroPoint(rng, scale, nan) ==
    ToUint8(Clamp(Round(Mul(Neg(rng[1]), scale)), R(0), R(QMax)), nan)

\* (v * scale + zero_point).round().clamp(0, 255).to(torch.uint8), one element
QuantizeValue(v, scale, zp, nan) ==
    ToUint8(Clamp(Round(Add(Mul(v, scale), R(zp))), R(0), R(QMax)), nan)

\* The outcomes of the undefined casts one call of quantize_linear makes.  A
\* cast is undefined only when its operand is NaN, which needs an infinite
\* scale, i.e. a range that collapsed to a point; the oracle of a tensor whose
\* range did not collapse is never consulted and is fixed to 0.
CastOutcomes(t) ==
    IF TensorMin(t) = R(0) /\ TensorMax(t) = R(0) THEN NaNCastOutcomes ELSE {0}
CastOracles(layer) ==
    [wzp : CastOutcomes(layer.weight),
     wq : [DOMAIN layer.weight -> CastOutcomes(layer.weight)],
     bzp : CastOutcomes(layer.bias),
     bq : [DOMAIN layer.bias -> CastOutcomes(layer.bias)]]

quantize_linear(layer, ub) ==
    LET wr  == WeightRange(layer)
        ws  == Scale(wr)
        wzp == ZeroPoint(wr, ws, ub.wzp)
        br  == BiasRange(layer)
        bs  == Scale(br)
        bzp == ZeroPoint(br, bs, ub.bzp)
    IN  [weight |-> [i \in DOMAIN layer.weight |->
                        QuantizeValue(layer.weight[i], ws, wzp, ub.wq[i])],
         weight_scale |-> ws,
         weight_zero_point |-> wzp,
         bias |-> [i \in DOMAIN layer.bias |->
                        QuantizeValue(layer.bias[i], bs, bzp, ub.bq[i])],
         bias_scale |-> bs,
         bias_zero_point |-> bzp]

(***************************************************************************)
(* QuantizedLinearLayer                                                    *)
(***************************************************************************)
QuantizedLinearLayer(input_dim, output_dim, weight, weight_scale, weight_zero_point, bias, bias_scale, bias_zero_point) ==
    [input_dim |-> input_dim, output_dim |-> output_dim,
     weight |-> weight, weight_scale |-> weight_scale,
     weight_zero_point |-> weight_zero_point,
     bias |-> bias, bias_scale |-> bias_scale, bias_zero_point |-> bias_zero_point]

DequantizeByteArith(q, zp, scale) == Div(R((q - zp) % 256), scale)
\* (q.float() - zero_point) / scale, one element
Dequantize(q, zp, scale) == Div(R(q - zp), scale)

RECURSIVE SumTo(_, _)
SumTo(f, n) == IF n = 0 THEN R(0) ELSE Add(SumTo(f, n - 1), f[n])

\* forward(x) for a batch of one row: the dequantized weight and bias and
\* x @ weight.T + bias; weight is stored row-major, shape [output_dim, input_dim]
forward(unit, x) ==
    LET w == [i \in DOMAIN unit.weight |->
                 Dequantize(unit.weight[i], unit.weight_zero_point, unit.weight_scale)]
        b == [i \in DOMAIN unit.bias |->
                 Dequantize(unit.bias[i], unit.bias_zero_point, unit.bias_scale)]
        y == [o \in 1..unit.output_dim |->
                 Add(SumTo([i \in 1..unit.input_dim |->
                               Mul(x[i], w[(o - 1) * unit.input_dim + i])],
                           unit.input_dim),
                     b[o])]
    IN  [x |-> x, weight |-> w, bias |-> b, y |-> y]

(***************************************************************************)
(* Inputs of the single-layer specification                                *)
(***************************************************************************)
\* element values: large and small magnitudes, both signs, zero
Values == {R(-300), R(-3), R(-2), R(0), R(3)}
\* elements of the input row given to forward
XValues == {R(1), R(-2)}

\* nn.Linear(in_features, out_features): weight [out, in] row-major, bias [out]
Linear(in_features, out_features, weight, bias) ==
    [in_features |-> in_features, out_features |-> out_features,
     weight |-> weight, bias |-> bias]

Shapes == {s \in (1..MaxElems) \X (1..MaxElems) : s[1] * s[2] <= MaxElems}

LinearLayers ==
    UNION {{Linear(s[1], s[2], w, b) :
               w \in [1..(s[1] * s[2]) -> Values], b \in [1..s[2] -> Values]} :
           s \in Shapes}

NoLayer == Linear(0, 0, <<>>, <<>>)
NoUnit == QuantizedLinearLayer(0, 0, <<>>, R(0), 0, <<>>, R(0), 0)
NoCalib == [w |-> <<R(0), R(0)>>, b |-> <<R(0), R(0)>>]
NoFwd == [x |-> <<>>, weight |-> <<>>, bias |-> <<>>, y |-> <<>>]

(***************************************************************************)
(* Module trees.  A module object is                                       *)
(*   [kind, children, layer, unit]                                         *)
(* kind "Linear" (nn.Linear, `layer`), "Quantized" (QuantizedLinearLayer,  *)
(* `unit`), "Container" (a module with registered children) or "Opaque"    *)
(* (any other leaf).  In the heap `children` is the ordered _modules       *)
(* mapping, a sequence of [name, id]; in a tree value it is a sequence of  *)
(* [name, node].                                                           *)
(***************************************************************************)
Module(kind, children, layer, unit) ==
    [kind |-> kind, children |-> children, layer |-> layer, unit |-> unit]

RECURSIVE TreeOf(_, _)
\* the tree rooted at object id of heap h, as a value
TreeOf(h, id) ==
    Module(h[id].kind,
           [i \in DOMAIN h[id].children |->
               [name |-> h[id].children[i].name,
                node |-> TreeOf(h, h[id].children[i].id)]],
           h[id].layer, h[id].unit)

RECURSIVE Reach(_, _)
\* ids of the objects of the tree rooted at id
Reach(h, id) ==
    {id} \cup UNION {Reach(h, h[id].children[i].id) : i \in DOMAIN h[id].children}

RECURSIVE Build(_, _)
RECURSIVE BuildKids(_, _, _, _)
\* allocate fresh objects for tree value t; the new root is the last object
Build(h, t) ==
    LET k == BuildKids(h, t.children, 1, <<>>)
    IN  [heap |-> Append(k.heap, Module(t.kind, k.kids, t.layer, t.unit)),
         id |-> Len(k.heap) + 1]
BuildKids(h, cs, i, acc) ==
    IF i > Len(cs) THEN [heap |-> h, kids |-> acc]
    ELSE LET b == Build(h, cs[i].node)
         IN  BuildKids(b.heap, cs, i + 1,
                       Append(acc, [name |-> cs[i].name, id |-> b.id]))

\* copy.deepcopy(model): fresh objects for everything reachable from id
DeepCopy(h, id) == Build(h, TreeOf(h, id))

(***************************************************************************)
(* quantize_model                                                          *)
(***************************************************************************)
\* the default of the copy_model parameter
CopyModelDefault == TRUE

NeverCopy(h, m, copy) == [heap |-> h, id |-> m]
\* if copy_model: model = copy.deepcopy(model)
CopyIfAsked(h, m, copy) ==
    IF copy THEN DeepCopy(h, m) ELSE [heap |-> h, id |-> m]

NeverExcluded(name, exclude) == FALSE
\* name in exclude_layers
Excluded(name, exclude) == name \in exclude

\* isinstance(layer, nn.Linear)
IsLinear(node) == node.kind = "Linear"

\* the casts of a layer whose ranges are not degenerate are all defined; the
\* layers of the tree specification are such layers
DefinedCasts(layer) ==
    [wzp |-> 0, wq |-> [i \in DOMAIN layer.weight |-> 0],
     bzp |-> 0, bq |-> [i \in DOMAIN layer.bias |-> 0]]

\* the QuantizedLinearLayer built from quantize_linear(layer)
QuantizedOf(layer) ==
    LET q == quantize_linear(layer, DefinedCasts(layer))
    IN  Module("Quantized", <<>>, NoLayer,
               QuantizedLinearLayer(layer.in_features, layer.out_features,
                                    q.weight, q.weight_scale, q.weight_zero_point,
                                    q.bias, q.bias_scale, q.bias_zero_point))

MoveChildToEnd(h, m, i, id) ==
    LET cs == h[m].children
        others == SelectSeq(cs, LAMBDA c : c.name # cs[i].name)
    IN  [h EXCEPT ![m].children = Append(others, [name |-> cs[i].name, id |-> id])]
\* setattr(model, name, unit): the entry of an existing name keeps its place
SetChild(h, m, i, id) ==
    [h EXCEPT ![m].children[i].id = id]

RECURSIVE quantize_model(_, _, _, _)
RECURSIVE QuantizeChildren(_, _, _, _)
\* returns the heap after the call and the id of the returned module
quantize_model(h, m, exclude, copy) ==
    LET c == CopyIfAsked(h, m, copy)
    IN  [heap |-> QuantizeChildren(c.heap, c.id, exclude, 1), id |-> c.id]
\* the loop over model.named_children(), from the i-th child on
QuantizeChildren(h, m, exclude, i) ==
    IF i > Len(h[m].children) THEN h
    ELSE LET ch == h[m].children[i]
         IN  IF Excluded(ch.name, exclude)
             THEN QuantizeChildren(h, m, exclude, i + 1)
             ELSE IF IsLinear(h[ch.id])
             THEN LET h1 == Append(h, QuantizedOf(h[ch.id].layer))
                  IN  QuantizeChildren(SetChild(h1, m, i, Len(h1)), m, exclude, i + 1)
             ELSE \* the result of the recursive call is not used
                  QuantizeChildren(
                      quantize_model(h, ch.id, exclude, CopyModelDefault).heap,
                      m, exclude, i + 1)

(***************************************************************************)
(* Inputs of the tree specification                                        *)
(***************************************************************************)
\* the nn.Linear layers found in trees
TreeLayers == {Linear(1, 2, <<R(-2), R(3)>>, <<R(-1), R(1)>>),
               Linear(1, 1, <<R(3)>>, <<R(-300)>>)}

Leaves == {Module("Linear", <<>>, l, NoUnit) : l \in TreeLayers}
          \cup {Module("Opaque", <<>>, NoLayer, NoUnit)}

RECURSIVE Size(_)
RECURSIVE SizeKids(_, _)
Size(t) == 1 + SizeKids(t.children, Len(t.children))
SizeKids(cs, n) == IF n = 0 THEN 0 ELSE SizeKids(cs, n - 1) + Size(cs[n].node)

\* nn.Sequential names its children "0", "1", ... in registration order
Sequential(ts) ==
    Module("Container", [i \in DOMAIN ts |-> [name |-> ToString(i - 1), node |-> ts[i]]],
           NoLayer, NoUnit)

RECURSIVE Trees(_)
RECURSIVE Forests(_)
\* trees of at most n objects; sequences of trees of at most n objects together
Trees(n) ==
    IF n = 0 THEN {} ELSE Leaves \cup {Sequential(f) : f \in Forests(n - 1)}
Forests(n) ==
    {<<>>} \cup
    UNION {LET first == {t \in Trees(k) : Size(t) = k}
               rest == Forests(n - k)
           IN  {<<t>> \o f : t \in first, f \in rest} : k \in 1..n}

\* the models a caller passes: an nn.Sequential of at most MaxNodes objects
Models == {Sequential(f) : f \in Forests(MaxNodes - 1)}

\* names a caller may exclude; "head" names no child of any model
ExcludeNames == {"0", "1", "head"}

(***************************************************************************)
(* Specification of one layer: quantize_linear, then forward               *)
(***************************************************************************)
NoQOut == [weight |-> <<>>, weight_scale |-> R(0), weight_zero_point |-> 0,
           bias |-> <<>>, bias_scale |-> R(0), bias_zero_point |-> 0]

TreeIdle ==
    /\ pc = "idle"
    /\ heap = <<>>
    /\ model = 0
    /\ exclude_layers = {}
    /\ copy_model = FALSE
    /\ result = 0
    /\ heap0 = <<>>
    /\ result1 = Module("Opaque", <<>>, NoLayer, NoUnit)
    /\ warnings = {}

LayerIdle ==
    /\ lpc = "idle"
    /\ linear_layer = NoLayer
    /\ calib = NoCalib
    /\ qout = NoQOut
    /\ fwd = NoFwd

InitLinear ==
    /\ lpc = "start"
    /\ linear_layer \in LinearLayers
    /\ calib = NoCalib
    /\ qout = NoQOut
    /\ fwd = NoFwd
    /\ TreeIdle

\* quantize_linear(linear_layer)
QuantizeLinear ==
    /\ lpc = "start"
    /\ \E ub \in CastOracles(linear_layer) :
          qout' = quantize_linear(linear_layer, ub)
    /\ calib' = [w |-> WeightRange(linear_layer), b |-> BiasRange(linear_layer)]
    /\ lpc' = "quantized"
    /\ UNCHANGED <<linear_layer, fwd>>
    /\ UNCHANGED tvars

\* QuantizedLinearLayer(in, out, *quantize_linear(linear_layer)).forward(x)
Forward ==
    /\ lpc = "quantized"
    /\ \E x \in [1..linear_layer.in_features -> XValues] :
          fwd' = forward(QuantizedLinearLayer(
                             linear_layer.in_features, linear_layer.out_features,
                             qout.weight, qout.weight_scale, qout.weight_zero_point,
                             qout.bias, qout.bias_scale, qout.bias_zero_point), x)
    /\ lpc' = "forwarded"
    /\ UNCHANGED <<linear_layer, calib, qout>>
    /\ UNCHANGED tvars

NextLinear == QuantizeLinear \/ Forward

SpecLinear == InitLinear /\ [][NextLinear]_vars

(***************************************************************************)
(* Specification of a model tree: quantize_model, then quantize_model again *)
(* on what it returned                                                     *)
(***************************************************************************)
Init ==
    /\ pc = "start"
    /\ \E t \in Models :
          LET b == Build(<<>>, t)
          IN  /\ heap = b.heap
              /\ model = b.id
              /\ heap0 = b.heap
              /\ result1 = t
    /\ exclude_layers = {}
    /\ copy_model = FALSE
    /\ result = 0
    /\ warnings = {}
    /\ LayerIdle

\* quantized_model = quantize_model(model, exclude_layers, copy_model)
QuantizeModel ==
    /\ pc = "start"
    /\ \E ex \in SUBSET ExcludeNames, cp \in BOOLEAN :
          LET r == quantize_model(heap, model, ex, cp)
          IN  /\ heap' = r.heap
              /\ result' = r.id
              /\ result1' = TreeOf(r.heap, r.id)
              /\ exclude_layers' = ex
              /\ copy_model' = cp
    /\ heap0' = heap
    /\ pc' = "done"
    /\ UNCHANGED <<model, warnings>>
    /\ UNCHANGED lvars

\* quantize_model(quantized_model, exclude_layers, cp)
QuantizeAgain ==
    /\ pc = "done"
    /\ \E cp \in BOOLEAN :
          LET r == quantize_model(heap, result, exclude_layers, cp)
          IN  /\ heap' = r.heap
              /\ result' = r.id
    /\ pc' = "again"
    /\ UNCHANGED <<model, exclude_layers, copy_model, heap0, result1, warnings>>
    /\ UNCHANGED lvars

Next == QuantizeModel \/ QuantizeAgain

Spec == Init /\ [][Next]_vars

(***************************************************************************)
(* Vocabulary of the properties                                            *)
(***************************************************************************)
RECURSIVE Paths(_)
RECURSIVE At(_, _)
RECURSIVE NamesOn(_, _)
RECURSIVE IdAt(_, _, _)
\* the positions of a tree: sequences of child indices, <<>> is the root
Paths(t) ==
    {<<>>} \cup
    UNION {{<<i>> \o q : q \in Paths(t.children[i].node)} : i \in DOMAIN t.children}
\* the subtree at a position
At(t, p) == IF p = <<>> THEN t ELSE At(t.children[Head(p)].node, Tail(p))
\* the names on the chain from the root to a position, each at its own level
NamesOn(t, p) ==
    IF p = <<>> THEN {}
    ELSE {t.children[Head(p)].name} \cup NamesOn(t.children[Head(p)].node, Tail(p))
\* the object at a position of the tree rooted at id
IdAt(h, id, p) == IF p = <<>> THEN id ELSE IdAt(h, h[id].children[Head(p)].id, Tail(p))

Front(p) == SubSeq(p, 1, Len(p) - 1)
ChildNames(t) == [i \in DOMAIN t.children |-> t.children[i].name]

\* the tree the caller passed, as it was at the call, and the tree returned
InTree == TreeOf(heap0, model)
OutTree == TreeOf(heap, result)

LinearAt(t, p) == At(t, p).kind = "Linear"
QuantizedAt(t, p) == p \in Paths(t) /\ At(t, p).kind = "Quantized"
\* a child that the traversal meets under an excluded name
ExcludedChild(t, p, exclude) ==
    /\ p # <<>>
    /\ NamesOn(t, Front(p)) \cap exclude = {}
    /\ NamesOn(t, p) \cap exclude # {}

\* ---- C1: a Linear leaf at any depth is replaced iff no name on its chain is
\* excluded; in particular a non-excluded Linear leaf inside a non-excluded
\* nested Container is replaced.
C1_LinearReplacedIffNotExcluded ==
    pc = "done" =>
        \A p \in Paths(InTree) \ {<<>>} :
            LinearAt(InTree, p) =>
                (QuantizedAt(OutTree, p) <=> NamesOn(InTree, p) \cap exclude_layers = {})

\* ---- C2: every child met under an excluded name is the same after the call
\* as before (same variant, same values, the same object when the call works
\* in place), with everything below it: nothing under it is replaced.
C2_ExcludedChildUnchanged ==
    pc = "done" =>
        \A p \in Paths(InTree) :
            ExcludedChild(InTree, p, exclude_layers) =>
                /\ p \in Paths(OutTree)
                /\ At(OutTree, p) = At(InTree, p)
                /\ ChildNames(At(OutTree, Front(p))) = ChildNames(At(InTree, Front(p)))
                /\ ~copy_model => IdAt(heap, result, p) = IdAt(heap0, model, p)

C2_Witness ==
    /\ pc = "done"
    /\ \E p \in Paths(InTree) :
          /\ ExcludedChild(InTree, p, exclude_layers)
          /\ At(InTree, p).kind = "Container"
          /\ \E q \in Paths(At(InTree, p)) : LinearAt(At(InTree, p), q)
    /\ \E p \in Paths(OutTree) : QuantizedAt(OutTree, p)

\* ---- C3: with copy_model true the caller's tree is unchanged at every depth
\* (every object it had is as it was, every Linear leaf still a Linear leaf with
\* its weight and bias) and the returned tree shares no object with it.
C3_CopyLeavesInputUntouched ==
    (pc = "done" /\ copy_model) =>
        /\ \A i \in DOMAIN heap0 : heap[i] = heap0[i]
        /\ TreeOf(heap, model) = InTree
        /\ Reach(heap, result) \cap Reach(heap, model) = {}

C3_Witness ==
    /\ pc = "done"
    /\ copy_model
    /\ \E p \in Paths(InTree) : Len(p) = 1 /\ LinearAt(InTree, p) /\ QuantizedAt(OutTree, p)
    /\ \E p \in Paths(InTree) : Len(p) = 2 /\ LinearAt(InTree, p)

\* ---- C9: an excluded name that matches no child name is reported to the
\* caller (a warning), and the transformation still completes.
C9_UnknownExclusionReported ==
    pc = "done" =>
        \A n \in exclude_layers :
            (\A p \in Paths(InTree) : n \notin NamesOn(InTree, p)) => n \in warnings

\* ---- C10: Opaque leaves and quantized units are left as they are, every
\* Container keeps its child names in registration order, and a second
\* quantize_model with the same exclusion set returns a tree structurally
\* identical to the result of the first.
C10_Idempotent ==
    /\ pc = "done" =>
          /\ Paths(OutTree) = Paths(InTree)
          /\ \A p \in Paths(InTree) :
                /\ ChildNames(At(OutTree, p)) = ChildNames(At(InTree, p))
                /\ At(InTree, p).kind \in {"Opaque", "Quantized"} =>
                      At(OutTree, p) = At(InTree, p)
    /\ pc = "again" => OutTree = result1

C10_Witness ==
    /\ pc = "again"
    /\ \E p \in Paths(result1) : QuantizedAt(result1, p)
    /\ \E p \in Paths(result1) : At(result1, p).kind = "Opaque"
    /\ \E p \in Paths(result1) : At(result1, p).kind = "Linear"
    /\ Len(result1.children) >= 2

\* ---- the single layer
AllZero(t) == \A i \in DOMAIN t : t[i] = R(0)
Quantized == lpc \in {"quantized", "forwarded"}
\* v * scale + zero_point, the value that is rounded, clamped and cast
Affine(v, scale, zp) == Add(Mul(v, scale), R(zp))
Half == <<1, 2>>

\* m is min(0, smallest element of t) / max(0, largest element of t)
IsZeroInclusiveMin(m, t) ==
    /\ Le(m, R(0))
    /\ \A i \in DOMAIN t : Le(m, t[i])
    /\ m = R(0) \/ m \in Range(t)
IsZeroInclusiveMax(m, t) ==
    /\ Le(R(0), m)
    /\ \A i \in DOMAIN t : Le(t[i], m)
    /\ m = R(0) \/ m \in Range(t)

\* ---- C4: a range that collapsed to a point (every element 0) yields the
\* fallback parameters scale = 1 and zero_point = 0, never an infinite or NaN
\* scale.
C4_DegenerateRangeFallback ==
    Quantized =>
        /\ AllZero(linear_layer.weight) =>
              qout.weight_scale = R(1) /\ qout.weight_zero_point = 0
        /\ AllZero(linear_layer.bias) =>
              qout.bias_scale = R(1) /\ qout.bias_zero_point = 0

\* the codes of tensor t under (scale, zp) are bytes and saturate: a value at
\* or above 255 before the cast is coded 255, one at or below 0 is coded 0
InByteRange(t, q, scale, zp) ==
    /\ zp \in 0..QMax
    /\ \A i \in DOMAIN t :
          /\ q[i] \in 0..QMax
          /\ Le(R(QMax), Affine(t[i], scale, zp)) => q[i] = QMax
          /\ Le(Affine(t[i], scale, zp), R(0)) => q[i] = 0

\* ---- C5: for a tensor with a non-degenerate range every quantized element
\* and the zero point lie in [0, 255], and the cast never wraps: values that
\* leave [0, 255] saturate at its ends.
C5_ClampSafety ==
    Quantized =>
        /\ ~AllZero(linear_layer.weight) =>
              InByteRange(linear_layer.weight, qout.weight,
                          qout.weight_scale, qout.weight_zero_point)
        /\ ~AllZero(linear_layer.bias) =>
              InByteRange(linear_layer.bias, qout.bias,
                          qout.bias_scale, qout.bias_zero_point)

C5_Witness ==
    /\ lpc = "quantized"
    /\ \E i \in DOMAIN linear_layer.weight :
          /\ Lt(R(QMax), Affine(linear_layer.weight[i], qout.weight_scale,
                                qout.weight_zero_point))
          /\ qout.weight[i] = QMax
    /\ R(-300) \in Range(linear_layer.bias)
    /\ R(3) \in Range(linear_layer.bias)

\* every element of t is recovered from its code to within 0.5 / scale
RoundTripBound(t, deq, scale) ==
    \A i \in DOMAIN t : Le(AbsR(Sub(deq[i], t[i])), Div(Half, scale))

C7_ZeroInclusiveRange ==
    Quantized =>
        /\ IsZeroInclusiveMin(calib.w[1], linear_layer.weight)
        /\ IsZeroInclusiveMax(calib.w[2], linear_layer.weight)
        /\ IsZeroInclusiveMin(calib.b[1], linear_layer.bias)
        /\ IsZeroInclusiveMax(calib.b[2], linear_layer.bias)

C7_Witness ==
    /\ lpc = "quantized"
    /\ \A i \in DOMAIN linear_layer.weight : Lt(R(0), linear_layer.weight[i])
    /\ \A i \in DOMAIN linear_layer.bias : Lt(linear_layer.bias[i], R(0))
    /\ calib.w[1] = R(0)
    /\ calib.b[2] = R(0)
    /\ calib.w # calib.b

\* scale = 255 / (max - min), zero_point the integer of [0, 255] nearest to
\* -min * scale, and an element 0 is coded zero_point and decoded 0
AffineParams(rng, scale, zp) ==
    /\ IsFinite(scale)
    /\ Mul(scale, Sub(rng[2], rng[1])) = R(QMax)
    /\ zp \in 0..QMax
    /\ Le(AbsR(Sub(R(zp), Mul(Neg(rng[1]), scale))), Half)
ZeroExact(t, q, deq, zp) ==
    \A i \in DOMAIN t : t[i] = R(0) => (q[i] = zp /\ deq[i] = R(0))

\* ---- C8: for max_val > min_val, scale = 255 / (max_val - min_val) and
\* zero_point = round(clamp(-min_val * scale, 0, 255)); the range [-2, 3] gives
\* scale 51 and zero point 102; the value 0 is coded zero_point and decoded 0.
C8_AffineParameters ==
    /\ Quantized =>
          /\ Lt(calib.w[1], calib.w[2]) =>
                AffineParams(calib.w, qout.weight_scale, qout.weight_zero_point)
          /\ Lt(calib.b[1], calib.b[2]) =>
                AffineParams(calib.b, qout.bias_scale, qout.bias_zero_point)
          /\ calib.w = <<R(-2), R(3)>> =>
                qout.weight_scale = R(51) /\ qout.weight_zero_point = 102
    /\ lpc = "forwarded" =>
          /\ Lt(calib.w[1], calib.w[2]) =>
                ZeroExact(linear_layer.weight, qout.weight, fwd.weight,
                          qout.weight_zero_point)
          /\ Lt(calib.b[1], calib.b[2]) =>
                ZeroExact(linear_layer.bias, qout.bias, fwd.bias,
                          qout.bias_zero_point)

C8_Witness ==
    /\ lpc = "forwarded"
    /\ calib.w = <<R(-2), R(3)>>
    /\ qout.weight_scale = R(51)
    /\ qout.weight_zero_point = 102
    /\ \E i \in DOMAIN linear_layer.bias :
          /\ linear_layer.bias[i] = R(0)
          /\ qout.bias[i] = qout.bias_zero_point
          /\ qout.bias_zero_point > 0
          /\ fwd.bias[i] = R(0)

====
